---- MODULE Spec2Model ----
(***************************************************************************)
(* Weak Hamiltonian Eye-type contraction module of Hadrons                 *)
(* (extras/Hadrons/Modules/MContraction/WeakHamiltonianEye.cc).            *)
(*                                                                         *)
(* The module is run as setup() followed by execute().  execute() resolves *)
(* the four propagators, builds the Saucer body/loop fields per direction, *)
(* sums and projects them to the HW_S correlator, derives the Eye fields   *)
(* by tracing the Saucer fields, sums and projects them to the HW_E        *)
(* correlator and writes both results in one call.                         *)
(*                                                                         *)
(* Data abstraction: a spin-colour matrix is a 2x2 integer matrix          *)
(* <<a, b, c, d>> = [[a, b], [c, d]] (products do not commute and the      *)
(* trace of a product is not the product of the traces); a lattice has T   *)
(* time slices of NSpace spatial sites; a field is a function on Sites(T). *)
(***************************************************************************)
EXTENDS Integers, Sequences, FiniteSets

\* ------------------------------------------------------------------ bounds
\* Largest number of space-time directions the environment reports.
MaxD == 2
\* Largest temporal extent of the environment's lattice.
MaxT == 2
\* Spatial sites per time slice.
NSpace == 2
\* How many times the module is run (setup + execute) in one behaviour.
MaxRuns == 2

\* ------------------------------------------------ constants of the header
\* enum { S_diag = 0, E_diag = 1, n_eye_diag = 2 } of WeakHamiltonian.hpp.
S_diag == 0
E_diag == 1
n_eye_diag == 2

\* --------------------------------------------------------- matrix algebra
Zero2 == <<0, 0, 0, 0>>
One2 == <<1, 0, 0, 1>>

MMul(A, B) ==
    << A[1] * B[1] + A[2] * B[3], A[1] * B[2] + A[2] * B[4],
       A[3] * B[1] + A[4] * B[3], A[3] * B[2] + A[4] * B[4] >>

MSub(A, B) == << A[1] - B[1], A[2] - B[2], A[3] - B[3], A[4] - B[4] >>

\* Hermitian adjoint; on real entries the transpose.
Adj(A) == << A[1], A[3], A[2], A[4] >>

\* Full trace.
Tr(A) == A[1] + A[4]

\* Gamma(Gamma::Algebra::Gamma5), as a 2x2 stand-in chosen so that 1 - g5 is
\* of full rank: a projector of rank one would make trace(A*B) equal
\* trace(A)*trace(B) and the two diagrams indistinguishable.
G5 == <<0, 1, -1, 0>>

\* Gamma::gmu[mu]: one generator per direction (2x2 stand-ins, pairwise
\* different and not multiples of one another).
Gmu(m) ==
    CASE m = 0 -> <<0, 1, 1, 0>>
      [] m = 1 -> <<1, 0, 0, -1>>
      [] m = 2 -> <<0, 1, 1, 1>>
      [] OTHER -> <<1, 1, 0, -1>>

\* X * GammaL(g) = X * g * (1 - g5).
GammaL(g) == MMul(g, MSub(One2, G5))

\* ------------------------------------------------------------ the lattice
Sites(Tn) == (0 .. Tn - 1) \X (0 .. NSpace - 1)

RECURSIVE SumSpace(_, _, _)
\* Sum of F over the first n spatial sites of time slice t.
SumSpace(F, t, n) ==
    IF n = 0 THEN 0 ELSE F[<<t, n - 1>>] + SumSpace(F, t, n - 1)

\* sliceSum(field, buf, Tp): buf is resized to the temporal extent of the
\* field's grid and buf[t] is the sum over the spatial sites of slice t.
SliceSum(F) ==
    LET Tn == Cardinality({s[1] : s \in DOMAIN F})
    IN  [i \in 1 .. Tn |-> SumSpace(F, i - 1, NSpace)]

\* Two lattice objects live on the same grid.
Conformable(F, G) == DOMAIN F = DOMAIN G

\* -------------------------------------------------------- the environment
\* Objects the environment holds, by name, on a lattice of temporal extent
\* Tn.  "sl": SlicedPropagator of Tn slices; "slLong": a SlicedPropagator
\* made for a lattice of Tn + 1 slices; "pA", "pB": PropagatorFields on the
\* environment's grid; "pX": a PropagatorField on a grid of Tn + 1 slices.
\* Any other name is not in the environment.
HasObject(n) == n \in {"sl", "slLong", "pA", "pB", "pX"}

ObjKind(n) == IF n \in {"sl", "slLong"} THEN "SlicedPropagator" ELSE "PropagatorField"

ObjValue(n, Tn) ==
    CASE n = "sl" -> [i \in 1 .. Tn |-> <<i, 1, 0, 1>>]
      [] n = "slLong" -> [i \in 1 .. Tn + 1 |-> <<1, i, 1, 2>>]
      [] n = "pA" -> [s \in Sites(Tn) |-> <<1 + s[1], s[2], 1, 2>>]
      [] n = "pB" -> [s \in Sites(Tn) |-> <<1, s[1] + 1, s[2] - 1, 1>>]
      [] n = "pX" -> [s \in Sites(Tn + 1) |-> <<1, s[1], s[2], 1>>]
      [] OTHER -> <<>>

\* envGet(type, name): the object is found and has the requested type.
Resolves(kind, n) == HasObject(n) /\ ObjKind(n) = kind

\* Names the parameters q1 .. q4 are drawn from.
Q1Names == {"sl", "slLong", "pA", "none"}
Q2Names == {"pA", "pX", "sl", "none"}
Q3Names == {"pA", "pB", "none"}
Q4Names == {"pB", "pA", "pX", "none"}

\* Values an uninitialised lattice site can hold.
Garbage == {0, 5}

\* Values a read past the end of the sliced propagator can yield.
GarbageMat == {<<5, 5, 5, 5>>, <<0, 3, 1, 0>>}

VARIABLES
    D,        \* env().getNd()
    T,        \* temporal extent of the environment's grid
    par,      \* par(): q1, q2, q3, q4, tSnk
    pc,       \* position in setup()/execute()
    run,      \* number of runs of the module started so far
    error,    \* the error that ended execute(), or "none"
    mu,       \* loop counter of the current loop
    q1Snk,    \* SitePropagator q1Snk
    corrbuf,  \* std::vector<TComplex> corrbuf
    result,   \* std::vector<Result> result(n_eye_diag)
    expbuf,   \* temporary "expbuf"
    S_body,   \* temporary "S_body"
    S_loop,   \* temporary "S_loop"
    E_body,   \* temporary "E_body"
    E_loop,   \* temporary "E_loop"
    written,  \* what the ResultWriter has received, one entry per write
    hist      \* history of the current run: buffer writes, in program order

vars == << D, T, par, pc, run, error, mu, q1Snk, corrbuf, result, expbuf,
           S_body, S_loop, E_body, E_loop, written, hist >>

scratch == << expbuf, S_body, S_loop, E_body, E_loop >>
locals == << q1Snk, corrbuf, result >>
inputs == << D, T, par >>

Ev(op, i, j) == [op |-> op, i |-> i, j |-> j]

EmptyResult == [name |-> "", corr |-> <<>>]

\* The resolved inputs.
q1 == ObjValue(par.q1, T)
q2 == ObjValue(par.q2, T)
q3 == ObjValue(par.q3, T)
q4 == ObjValue(par.q4, T)

Init ==
    /\ D \in 0 .. MaxD
    /\ T \in 1 .. MaxT
    /\ par \in [q1 : Q1Names, q2 : Q2Names, q3 : Q3Names, q4 : Q4Names,
                tSnk : 0 .. T]
    /\ pc = "idle"
    /\ run = 0
    /\ error = "none"
    /\ mu = 0
    /\ q1Snk = Zero2
    /\ corrbuf = <<>>
    /\ result = <<>>
    /\ expbuf = <<>>
    /\ S_body = <<>>
    /\ S_loop = <<>>
    /\ E_body = <<>>
    /\ E_loop = <<>>
    /\ written = <<>>
    /\ hist = <<>>

\* ------------------------------------------------------------------ setup
\* envTmpLat / envTmp: the temporaries are created on the environment's grid
\* when they do not exist yet (their sites are not initialised) and are
\* reused as they are when they do.
Setup ==
    /\ pc \in {"idle", "done"}
    /\ run < MaxRuns
    /\ run' = run + 1
    /\ pc' = "resolve"
    /\ hist' = <<>>
    /\ IF run = 0
       THEN \E g \in Garbage :
              /\ expbuf' = [s \in Sites(T) |-> g]
              /\ S_body' = [m \in 0 .. D - 1 |-> [s \in Sites(T) |-> <<g, g, g, g>>]]
              /\ S_loop' = [m \in 0 .. D - 1 |-> [s \in Sites(T) |-> <<g, g, g, g>>]]
              /\ E_body' = [m \in 0 .. D - 1 |-> [s \in Sites(T) |-> g]]
              /\ E_loop' = [m \in 0 .. D - 1 |-> [s \in Sites(T) |-> g]]
       ELSE UNCHANGED scratch
    /\ UNCHANGED << inputs, error, mu, locals, written >>

\* ---------------------------------------------------------------- execute
Fail(kind) ==
    /\ pc' = "failed"
    /\ error' = kind

\* Variant of AllResolved that does not look q4 up before the contraction.
AllResolvedSkipsQ4 ==
    /\ Resolves("SlicedPropagator", par.q1)
    /\ Resolves("PropagatorField", par.q2)
    /\ Resolves("PropagatorField", par.q3)

\* Lines 108-111: the four envGet, each with the type it asks for.
AllResolved ==
    /\ Resolves("SlicedPropagator", par.q1)
    /\ Resolves("PropagatorField", par.q2)
    /\ Resolves("PropagatorField", par.q3)
    /\ Resolves("PropagatorField", par.q4)

\* Lines 107-115: the writer, the four envGet, the locals.
Resolve ==
    /\ pc = "resolve"
    /\ IF AllResolved
       THEN /\ pc' = "getTmp"
            /\ corrbuf' = <<>>
            /\ result' = [i \in 1 .. n_eye_diag |-> EmptyResult]
            /\ UNCHANGED error
       ELSE /\ Fail("UnresolvedInputError")
            /\ UNCHANGED << corrbuf, result >>
    /\ UNCHANGED << inputs, run, mu, q1Snk, scratch, written, hist >>

\* Lines 117-123: envGetTmp of the seven temporaries.
GetTmp ==
    /\ pc = "getTmp"
    /\ \/ pc' = "getSnk" /\ UNCHANGED error
       \/ Fail("AllocationError")
    /\ UNCHANGED << inputs, run, mu, locals, scratch, written, hist >>

\* Line 126: q1Snk = q1[par().tSnk], an unchecked std::vector subscript.
GetSnk ==
    /\ pc = "getSnk"
    /\ IF par.tSnk < Len(q1)
       THEN /\ q1Snk' = q1[par.tSnk + 1]
            /\ pc' = "S_setup"
            /\ UNCHANGED error
       ELSE \/ \E g \in GarbageMat :
                 /\ q1Snk' = g
                 /\ pc' = "S_setup"
                 /\ UNCHANGED error
            \/ /\ Fail("Crash")
               /\ UNCHANGED q1Snk
    /\ mu' = 0
    /\ UNCHANGED << inputs, run, corrbuf, result, scratch, written, hist >>

\* MAKE_SE_BODY(Q_1, Q_2, Q_3, gamma) = Q_3*g5*Q_1*adj(Q_2)*g5*gamma, site
\* by site, with the site-independent Q_1.
MakeSEBody(Q1, Q2, Q3, g) ==
    [s \in DOMAIN Q3 |->
        MMul(MMul(MMul(MMul(MMul(Q3[s], G5), Q1), Adj(Q2[s])), G5), g)]

\* MAKE_SE_LOOP(Q_loop, gamma) = Q_loop*gamma.
MakeSELoop(Q4, g) == [s \in DOMAIN Q4 |-> MMul(Q4[s], g)]

\* Line 131, right-hand side.
SBodyOf(m) == MakeSEBody(q1Snk, q2, q3, GammaL(Gmu(m)))

\* Line 132, right-hand side.
SLoopOf(m) == MakeSELoop(q4, GammaL(Gmu(m)))

\* The operands of lines 131-132 and their destinations are on one grid.
OperandsConformable ==
    /\ Conformable(q2, q3)
    /\ Conformable(q3, expbuf)
    /\ Conformable(q4, expbuf)

\* Variant of SlotOf in which every iteration writes slot 0.
SlotZero(m) == 0

\* The slot an iteration of the loops of lines 129-133 and 140-144 writes.
SlotOf(m) == m

\* Lines 129-133, one iteration.  The lattice expressions need all their
\* operands and the destination on one grid.
BuildS ==
    /\ pc = "S_setup"
    /\ mu < D
    /\ IF OperandsConformable
       THEN /\ S_body' = [S_body EXCEPT ![SlotOf(mu)] = SBodyOf(mu)]
            /\ S_loop' = [S_loop EXCEPT ![SlotOf(mu)] = SLoopOf(mu)]
            /\ hist' = Append(hist, Ev("build", mu, SlotOf(mu)))
            /\ mu' = mu + 1
            /\ UNCHANGED << pc, error >>
       ELSE /\ Fail("DimensionMismatchError")
            /\ UNCHANGED << S_body, S_loop, hist, mu >>
    /\ UNCHANGED << inputs, run, locals, expbuf, E_body, E_loop, written >>

\* SUM_MU(buf, f), first statement: buf = zero.
ZeroField == [s \in DOMAIN expbuf |-> 0]

\* SUM_MU(buf, f), loop body: buf += f.
AddField(F, G) == [s \in DOMAIN F |-> F[s] + G[s]]

\* Variant of SaucerTerm that multiplies the traces, as the Eye diagram does.
SaucerTermOfTraces(m) ==
    [s \in DOMAIN S_body[m] |-> Tr(S_body[m][s]) * Tr(S_loop[m][s])]

\* Line 136, the summand: trace(S_body[mu]*S_loop[mu]).
SaucerTerm(m) == [s \in DOMAIN S_body[m] |-> Tr(MMul(S_body[m][s], S_loop[m][s]))]

\* Line 147, the summand: E_body[mu]*E_loop[mu].
EyeTerm(m) == [s \in DOMAIN E_body[m] |-> E_body[m][s] * E_loop[m][s]]

\* trace() of a propagator field, site by site.
TraceField(F) == [s \in DOMAIN F |-> Tr(F[s])]

\* Line 142, right-hand side.
EBodyOf(m) == TraceField(S_body[m])

\* Variant of ELoopOf that traces the body field again.
ELoopFromBody(m) == TraceField(S_body[m])

\* Line 143, right-hand side.
ELoopOf(m) == TraceField(S_loop[m])

\* MAKE_DIAG(exp, buf, res, n) after sliceSum: res.name = n, res.corr is
\* resized to buf.size() and filled from buf.
MakeDiag(res, idx, n, buf) ==
    [res EXCEPT ![idx + 1] = [name |-> n, corr |-> [t \in 1 .. Len(buf) |-> buf[t]]]]

\* Variant of DiagSResult that fills the Eye slot.
DiagSResultInESlot(buf) == MakeDiag(result, E_diag, "HW_S", buf)

\* Line 137: the result slot and label of the Saucer diagram.
DiagSResult(buf) == MakeDiag(result, S_diag, "HW_S", buf)

\* Variant of DiagEResult that fills the Saucer slot again.
DiagEResultInSSlot(buf) == MakeDiag(result, S_diag, "HW_E", buf)

\* Line 148: the result slot and label of the Eye diagram.
DiagEResult(buf) == MakeDiag(result, E_diag, "HW_E", buf)

\* Line 136, SUM_MU: leaving the loop of lines 129-133, expbuf = zero.
SumSZero ==
    /\ pc = "S_setup"
    /\ ~(mu < D)
    /\ expbuf' = ZeroField
    /\ mu' = 0
    /\ pc' = "S_sum"
    /\ hist' = Append(hist, Ev("zero", S_diag, 0))
    /\ UNCHANGED << inputs, run, error, locals, S_body, S_loop, E_body, E_loop, written >>

\* Line 136, SUM_MU: one iteration of expbuf += trace(S_body[mu]*S_loop[mu]).
SumSAdd ==
    /\ pc = "S_sum"
    /\ mu < D
    /\ expbuf' = AddField(expbuf, SaucerTerm(mu))
    /\ mu' = mu + 1
    /\ hist' = Append(hist, Ev("add", S_diag, mu))
    /\ UNCHANGED << inputs, pc, run, error, locals, S_body, S_loop, E_body, E_loop, written >>

\* Variant of DiagS that hands the Saucer Result to the writer at once.
DiagSEmits ==
    /\ pc = "S_sum"
    /\ ~(mu < D)
    /\ corrbuf' = SliceSum(expbuf)
    /\ result' = DiagSResult(corrbuf')
    /\ written' = Append(written, [key |-> "HW_Eye", results |-> <<result'[S_diag + 1]>>])
    /\ mu' = 0
    /\ pc' = "E_setup"
    /\ hist' = Append(hist, Ev("diag", S_diag, corrbuf'))
    /\ UNCHANGED << inputs, run, error, q1Snk, scratch >>

\* Line 137, MAKE_DIAG(expbuf, corrbuf, result[S_diag], "HW_S").
DiagS ==
    /\ pc = "S_sum"
    /\ ~(mu < D)
    /\ corrbuf' = SliceSum(expbuf)
    /\ result' = DiagSResult(corrbuf')
    /\ mu' = 0
    /\ pc' = "E_setup"
    /\ hist' = Append(hist, Ev("diag", S_diag, corrbuf'))
    /\ UNCHANGED << inputs, run, error, q1Snk, scratch, written >>

\* Lines 140-144, one iteration.
BuildE ==
    /\ pc = "E_setup"
    /\ mu < D
    /\ E_body' = [E_body EXCEPT ![SlotOf(mu)] = EBodyOf(mu)]
    /\ E_loop' = [E_loop EXCEPT ![SlotOf(mu)] = ELoopOf(mu)]
    /\ mu' = mu + 1
    /\ hist' = Append(hist, Ev("derive", mu, SlotOf(mu)))
    /\ UNCHANGED << inputs, pc, run, error, locals, expbuf, S_body, S_loop, written >>

\* Variant of SumEZero that keeps accumulating on top of the Saucer sum.
SumEKeeps ==
    /\ pc = "E_setup"
    /\ ~(mu < D)
    /\ mu' = 0
    /\ pc' = "E_sum"
    /\ hist' = Append(hist, Ev("zero", E_diag, 0))
    /\ UNCHANGED << inputs, run, error, locals, scratch, written >>

\* Line 147, SUM_MU: leaving the loop of lines 140-144, expbuf = zero.
SumEZero ==
    /\ pc = "E_setup"
    /\ ~(mu < D)
    /\ expbuf' = ZeroField
    /\ mu' = 0
    /\ pc' = "E_sum"
    /\ hist' = Append(hist, Ev("zero", E_diag, 0))
    /\ UNCHANGED << inputs, run, error, locals, S_body, S_loop, E_body, E_loop, written >>

\* Line 147, SUM_MU: one iteration of expbuf += E_body[mu]*E_loop[mu].
SumEAdd ==
    /\ pc = "E_sum"
    /\ mu < D
    /\ expbuf' = AddField(expbuf, EyeTerm(mu))
    /\ mu' = mu + 1
    /\ hist' = Append(hist, Ev("add", E_diag, mu))
    /\ UNCHANGED << inputs, pc, run, error, locals, S_body, S_loop, E_body, E_loop, written >>

\* Line 148, MAKE_DIAG(expbuf, corrbuf, result[E_diag], "HW_E").
DiagE ==
    /\ pc = "E_sum"
    /\ ~(mu < D)
    /\ corrbuf' = SliceSum(expbuf)
    /\ result' = DiagEResult(corrbuf')
    /\ mu' = 0
    /\ pc' = "write"
    /\ hist' = Append(hist, Ev("diag", E_diag, corrbuf'))
    /\ UNCHANGED << inputs, run, error, q1Snk, scratch, written >>

\* What line 150 hands to the writer.
WriteRecord == [key |-> "HW_Eye", results |-> result]

\* Line 150: write(writer, "HW_Eye", result).
Write ==
    /\ pc = "write"
    /\ written' = Append(written, WriteRecord)
    /\ pc' = "done"
    /\ hist' = Append(hist, Ev("write", Len(result), 0))
    /\ UNCHANGED << inputs, run, error, mu, locals, scratch >>

Next ==
    \/ Setup
    \/ Resolve
    \/ GetTmp
    \/ GetSnk
    \/ BuildS
    \/ SumSZero
    \/ SumSAdd
    \/ DiagS
    \/ BuildE
    \/ SumEZero
    \/ SumEAdd
    \/ DiagE
    \/ Write

Spec == Init /\ [][Next]_vars

\* ------------------------------------------------------------- properties
\* Executions of execute() that ran to the end.
Completed == IF pc = "done" THEN run ELSE IF run = 0 THEN 0 ELSE run - 1

\* Positions of the events of the current run with the given op and i.
Events(op, i) == {k \in 1 .. Len(hist) : hist[k].op = op /\ hist[k].i = i}

\* Number of Results the current run has handed to the writer.
EmittedThisRun ==
    IF run > 0 /\ Len(written) >= run THEN Len(written[run].results) ELSE 0

Executing == pc \notin {"idle", "done", "failed"}

RECURSIVE SumFn(_)
\* Sum of the values of a function with a finite domain.
SumFn(f) ==
    IF DOMAIN f = {} THEN 0
    ELSE LET x == CHOOSE y \in DOMAIN f : TRUE
         IN  f[x] + SumFn([y \in DOMAIN f \ {x} |-> f[y]])

\* C1: every completed execution hands exactly two Results to the writer,
\* "HW_S" first and "HW_E" second, in one write, which is the last event of
\* the execution and comes after both correlators were projected; an
\* execution that has not completed has written nothing.
C1_TwoResultsInOneWrite ==
    /\ Len(written) = Completed
    /\ \A k \in 1 .. Len(written) :
          /\ written[k].key = "HW_Eye"
          /\ Len(written[k].results) = 2
          /\ written[k].results[1].name = "HW_S"
          /\ written[k].results[2].name = "HW_E"
    /\ pc # "done" => Events("write", 2) = {}
    /\ pc = "done" =>
          /\ Events("write", 2) = {Len(hist)}
          /\ Cardinality(Events("diag", S_diag)) = 1
          /\ Cardinality(Events("diag", E_diag)) = 1
          /\ \A k \in Events("diag", S_diag) :
                k < Len(hist) /\ written[run].results[1].corr = hist[k].j
          /\ \A k \in Events("diag", E_diag) :
                k < Len(hist) /\ written[run].results[2].corr = hist[k].j

\* C1 witness: a first execution has completed on a lattice with directions.
C1_Witness ==
    /\ pc = "done"
    /\ run = 1
    /\ D >= 1
    /\ Len(written) = 1
    /\ written[1].results[1].corr # written[1].results[2].corr

\* C2: no partial emission: an execution has handed over 0 Results or 2,
\* never 1; a failed execution has handed over none, whatever step failed,
\* and over all executions the Results written are two per completed one.
C2_NoPartialEmission ==
    /\ EmittedThisRun \in {0, 2}
    /\ pc = "failed" => EmittedThisRun = 0 /\ error # "none"
    /\ Executing => EmittedThisRun = 0
    /\ SumFn([k \in 1 .. Len(written) |-> Len(written[k].results)]) = 2 * Completed

\* C2 witness: an execution failed after the Saucer fields were being built
\* and nothing was written.
C2_Witness ==
    /\ pc = "failed"
    /\ error = "DimensionMismatchError"
    /\ written = <<>>

\* One of the four identifiers is absent from the environment, or q1 is no
\* SlicedPropagator, or one of q2..q4 is no PropagatorField.
InputUnresolvable ==
    \/ ~HasObject(par.q1)
    \/ ObjKind(par.q1) # "SlicedPropagator"
    \/ \E n \in {par.q2, par.q3, par.q4} :
          ~HasObject(n) \/ ObjKind(n) # "PropagatorField"

\* C3: when one of q1..q4 does not resolve (absent, or of another type than
\* the one asked for), execute() ends with UnresolvedInputError before any
\* contraction step has run, and nothing is written.
C3_UnresolvedInputStops ==
    InputUnresolvable =>
        /\ pc \in {"idle", "resolve", "failed"}
        /\ pc = "failed" => error = "UnresolvedInputError"
        /\ hist = <<>>
        /\ written = <<>>

\* C3 witness: q4 alone is absent and the execution has failed.
C3_Witness ==
    /\ pc = "failed"
    /\ error = "UnresolvedInputError"
    /\ par.q4 = "none"
    /\ Resolves("SlicedPropagator", par.q1)
    /\ Resolves("PropagatorField", par.q2)
    /\ Resolves("PropagatorField", par.q3)

\* C4 (as claimed): with D = 0 directions execute() fails and emits nothing;
\* it never completes.
C4_ZeroDirectionsFail ==
    D = 0 => pc # "done" /\ written = <<>>

\* The inputs disagree in shape: q2, q3, q4 are not all on the environment's
\* grid, or the sliced q1 has not the lattice's temporal extent.
ShapeMismatch ==
    \/ ~Conformable(q2, q3)
    \/ ~Conformable(q3, q4)
    \/ ~Conformable(q2, [s \in Sites(T) |-> 0])
    \/ Len(q1) # T

\* C5 (as claimed, on a lattice with at least one direction): when the
\* resolved inputs disagree in shape, execute() ends with
\* DimensionMismatchError raised before the loop of lines 129-133 runs: no
\* iteration of that loop is ever completed, the execution never gets past
\* the loop, and no other error ends it.
C5_MismatchBeforeLoop ==
    (D >= 1 /\ AllResolved /\ par.tSnk < Len(q1) /\ ShapeMismatch) =>
        /\ \A k \in 1 .. Len(hist) : hist[k].op # "build"
        /\ pc \notin {"S_sum", "E_setup", "E_sum", "write", "done"}
        /\ pc = "failed" => error \in {"DimensionMismatchError", "AllocationError"}

\* Positions in execute() at and after the named point.
AfterSBuild == {"S_sum", "E_setup", "E_sum", "write", "done"}
AfterSSum == {"E_setup", "E_sum", "write", "done"}
AfterEBuild == {"E_sum", "write", "done"}
AfterESum == {"write", "done"}

Dirs == 0 .. D - 1

\* C6: each emitted correlator has one entry per time slice of the lattice,
\* T = 1 included, and the Saucer correlator keeps its length T while and
\* after corrbuf is reused for the Eye diagram.
C6_CorrelatorLength ==
    /\ \A k \in 1 .. Len(written) :
          /\ Len(written[k].results[1].corr) = T
          /\ Len(written[k].results[2].corr) = T
    /\ pc \in AfterSSum => Len(result[S_diag + 1].corr) = T
    /\ pc \in AfterESum =>
          /\ Len(result[E_diag + 1].corr) = T
          /\ Len(corrbuf) = T

\* C6 witness: an execution completed on a lattice of temporal extent 1.
C6_Witness ==
    /\ pc = "done"
    /\ T = 1
    /\ D >= 1
    /\ Len(written[1].results[2].corr) = 1

\* Sum over the directions below n of the per-direction fields G[m].
DirSum(G, n) ==
    [s \in Sites(T) |-> SumFn([m \in 0 .. n - 1 |-> G[m][s]])]

\* C7: per diagram exactly D contributions are summed: every direction is
\* built once, in its own slot and by its own iteration, and added once;
\* the accumulated field is the sum of the contributions added so far and,
\* when the sum is over, of all D of them.
C7_ExactlyDDirections ==
    /\ \A k \in 1 .. Len(hist) :
          /\ hist[k].op \in {"build", "derive"} =>
                hist[k].i \in Dirs /\ hist[k].j = hist[k].i
          /\ hist[k].op = "add" => hist[k].j \in Dirs
    /\ \A m \in Dirs :
          /\ Cardinality(Events("build", m)) = (IF pc \in AfterSBuild THEN 1 ELSE
                                                IF pc = "S_setup" /\ m < mu THEN 1 ELSE 0)
          /\ Cardinality(Events("derive", m)) = (IF pc \in AfterEBuild THEN 1 ELSE
                                                 IF pc = "E_setup" /\ m < mu THEN 1 ELSE 0)
          /\ Cardinality({k \in Events("add", S_diag) : hist[k].j = m})
                = (IF pc \in AfterSSum THEN 1 ELSE
                   IF pc = "S_sum" /\ m < mu THEN 1 ELSE 0)
          /\ Cardinality({k \in Events("add", E_diag) : hist[k].j = m})
                = (IF pc \in AfterESum THEN 1 ELSE
                   IF pc = "E_sum" /\ m < mu THEN 1 ELSE 0)
    /\ pc = "S_sum" => expbuf = DirSum([m \in Dirs |-> SaucerTerm(m)], mu)
    /\ pc = "E_setup" => expbuf = DirSum([m \in Dirs |-> SaucerTerm(m)], D)
    /\ pc = "E_sum" => expbuf = DirSum([m \in Dirs |-> EyeTerm(m)], mu)
    /\ pc \in AfterESum => expbuf = DirSum([m \in Dirs |-> EyeTerm(m)], D)

\* C7 witness: the Saucer sum over two directions is complete and is not
\* the contribution of one direction alone.
C7_Witness ==
    /\ pc = "E_setup"
    /\ mu = 0
    /\ D = 2
    /\ expbuf # SaucerTerm(0)
    /\ expbuf # SaucerTerm(1)
    /\ S_body[0] # S_body[1]

\* C8: once derived, the Eye body and loop of every direction are the site
\* by site traces of the Saucer body and loop of that direction, which are
\* still the fields built (once) from the inputs of this execution.
C8_EyeFieldsAreTraces ==
    /\ pc \in AfterSBuild =>
          \A m \in Dirs :
             /\ S_body[m] = MakeSEBody(q1Snk, q2, q3, GammaL(Gmu(m)))
             /\ S_loop[m] = MakeSELoop(q4, GammaL(Gmu(m)))
             /\ Cardinality(Events("build", m)) = 1
    /\ \A m \in Dirs :
          (pc \in AfterEBuild \/ (pc = "E_setup" /\ m < mu)) =>
             \A s \in Sites(T) :
                /\ E_body[m][s] = Tr(S_body[m][s])
                /\ E_loop[m][s] = Tr(S_loop[m][s])
                /\ E_body[m][s] =
                     Tr(MakeSEBody(q1Snk, q2, q3, GammaL(Gmu(m)))[s])
                /\ E_loop[m][s] = Tr(MMul(q4[s], GammaL(Gmu(m))))

\* C8 witness: both directions are derived and body and loop traces differ.
C8_Witness ==
    /\ pc = "E_sum"
    /\ D = 2
    /\ E_body[1] # E_loop[1]
    /\ E_body[0] # E_body[1]
    /\ \E s \in Sites(T) : E_body[1][s] # 0 /\ E_loop[1][s] # 0

\* The sites of time slice t, paired with the directions.
SliceDirs(t) == {s \in Sites(T) : s[1] = t} \X Dirs

\* S of the header comment at site s, direction m:
\* trace(q3*g5*q1*adj(q2)*g5*gL[mu]*q4*gL[mu]).
HeaderS(s, m) ==
    Tr(MMul(MMul(MMul(MMul(MMul(MMul(MMul(q3[s], G5), q1Snk), Adj(q2[s])), G5),
                      GammaL(Gmu(m))), q4[s]), GammaL(Gmu(m))))

\* E of the header comment at site s, direction m:
\* trace(q3*g5*q1*adj(q2)*g5*gL[mu])*trace(q4*gL[mu]).
HeaderE(s, m) ==
    Tr(MMul(MMul(MMul(MMul(MMul(q3[s], G5), q1Snk), Adj(q2[s])), G5),
            GammaL(Gmu(m))))
    * Tr(MMul(q4[s], GammaL(Gmu(m))))

\* C9: entry t of the emitted Saucer correlator is the sum, over the
\* spatial sites of slice t and the directions, of
\* trace(S_body[mu]*S_loop[mu]); entry t of the Eye correlator is the same
\* sum of trace(S_body[mu])*trace(S_loop[mu]); sites of other slices do not
\* enter.  Both agree with the expressions of the header comment.
C9_CorrelatorsAreSliceSums ==
    pc = "done" =>
       \A t \in 0 .. T - 1 :
          /\ written[run].results[1].corr[t + 1] =
                SumFn([p \in SliceDirs(t) |->
                         Tr(MMul(S_body[p[2]][p[1]], S_loop[p[2]][p[1]]))])
          /\ written[run].results[2].corr[t + 1] =
                SumFn([p \in SliceDirs(t) |->
                         Tr(S_body[p[2]][p[1]]) * Tr(S_loop[p[2]][p[1]])])
          /\ written[run].results[1].corr[t + 1] =
                SumFn([p \in SliceDirs(t) |-> HeaderS(p[1], p[2])])
          /\ written[run].results[2].corr[t + 1] =
                SumFn([p \in SliceDirs(t) |-> HeaderE(p[1], p[2])])

\* C9 witness: a completed execution on two slices and two directions whose
\* correlators differ between the slices and between the diagrams.
C9_Witness ==
    /\ pc = "done"
    /\ T = 2
    /\ D = 2
    /\ written[run].results[1].corr[1] # written[run].results[1].corr[2]
    /\ written[run].results[1].corr # written[run].results[2].corr
    /\ written[run].results[2].corr[2] # 0

\* The inputs resolve and tSnk is a slice of the sliced q1.
SinkInRange == AllResolved /\ par.tSnk < Len(q1)

\* What an execution emits as a function of q1..q4 and tSnk alone.
ExpectedCorr(diag) ==
    LET snk == q1[par.tSnk + 1]
        body(s, m) == MMul(MMul(MMul(MMul(MMul(q3[s], G5), snk), Adj(q2[s])), G5),
                           GammaL(Gmu(m)))
        loop(s, m) == MMul(q4[s], GammaL(Gmu(m)))
    IN  [i \in 1 .. T |->
           SumFn([p \in SliceDirs(i - 1) |->
                    IF diag = S_diag
                    THEN Tr(MMul(body(p[1], p[2]), loop(p[1], p[2])))
                    ELSE Tr(body(p[1], p[2])) * Tr(loop(p[1], p[2]))])]

\* C10: nothing leaks through the reused scratch buffers: each sum starts
\* from a zero accumulation field (not from what the temporaries held
\* before, nor from the Saucer sum), the Saucer correlator stored in its
\* Result stays what was projected while the Eye diagram is computed, and
\* with tSnk inside q1 every execution emits the correlators that q1..q4
\* and tSnk determine, so a second execution emits what the first did.
C10_NoLeakThroughScratch ==
    /\ (pc \in {"S_sum", "E_sum"} /\ mu = 0) => \A s \in Sites(T) : expbuf[s] = 0
    /\ pc \in AfterSSum =>
          \A k \in Events("diag", S_diag) : result[S_diag + 1].corr = hist[k].j
    /\ SinkInRange =>
          \A k \in 1 .. Len(written) :
             /\ written[k].results[1].corr = ExpectedCorr(S_diag)
             /\ written[k].results[2].corr = ExpectedCorr(E_diag)
             /\ k > 1 => written[k] = written[k - 1]

\* C10 witness: a second execution has emitted, on temporaries that were
\* first allocated with non-zero contents and then left over by the first.
C10_Witness ==
    /\ pc = "done"
    /\ run = 2
    /\ Len(written) = 2
    /\ D = 2
    /\ SinkInRange
    /\ written[2].results[2].corr # written[2].results[1].corr
====
